---- MODULE Spec2Model ----
(***************************************************************************)
(* TalentScout hiring assistant: the interview session state machine of   *)
(* app_grok.py (Groq collaborator, duplicate guard, field index) and of   *)
(* app.py (OpenAI collaborator, first-missing-field lookup).               *)
(*                                                                         *)
(* A Python string is a sequence of atoms.  A user input is a sequence of *)
(* one-character atoms; a literal of the program is one multi-character   *)
(* atom; an f-string is the concatenation of its pieces.                  *)
(***************************************************************************)
EXTENDS Integers, Sequences, FiniteSets, TLC

VARIABLES
    app,            \* which of the two scripts runs: "app_grok" or "app"
    session_state,  \* st.session_state: the keys the script keeps
    files,          \* the JSON files written so far, in order of writing
    io,             \* log of the outside world: collaborator requests, write attempts
    budget,         \* how much of the bounds the run has used
    twin            \* st.session_state of the run with the same events, no request failing

vars == <<app, session_state, files, io, budget, twin>>

(***************************************************************************)
(* Bounds of the model.                                                    *)
(***************************************************************************)
MaxDeviations == 1  \* off-script inputs, failed requests and failed writes of a run
MaxRestarts   == 1  \* explicit restarts of a run

(***************************************************************************)
(* Strings.                                                                *)
(***************************************************************************)
None == <<"None">>          \* Python None; no text is this one atom

Upper == <<"A","B","C","D","E","F","G","H","I","J","K","L","M",
           "N","O","P","Q","R","S","T","U","V","W","X","Y","Z">>
Low   == <<"a","b","c","d","e","f","g","h","i","j","k","l","m",
           "n","o","p","q","r","s","t","u","v","w","x","y","z">>
Digits == {"0","1","2","3","4","5","6","7","8","9"}
Whitespace == {" ", "\t", "\n"}

\* the lower-case letter of every upper-case letter
Lowered == [c \in {Upper[i] : i \in 1..26} |-> Low[CHOOSE i \in 1..26 : Upper[i] = c]]

\* str.lower(), one character
LowerChar(c) == IF c \in DOMAIN Lowered THEN Lowered[c] ELSE c

\* str.lower()
lower(s) == [i \in 1..Len(s) |-> LowerChar(s[i])]

\* str.lstrip()
RECURSIVE lstrip(_)
lstrip(s) == IF s # <<>> /\ Head(s) \in Whitespace THEN lstrip(Tail(s)) ELSE s

\* str.rstrip()
RECURSIVE rstrip(_)
rstrip(s) ==
    IF s # <<>> /\ s[Len(s)] \in Whitespace THEN rstrip(SubSeq(s, 1, Len(s) - 1)) ELSE s

\* a variant in which the call of strip is forgotten
strip_forgotten(s) == s

\* str.strip(): leading and trailing whitespace removed
strip(s) == rstrip(lstrip(s))

\* `word in s`: word occurs in s as a contiguous substring
contains(s, word) ==
    \E i \in 1..(Len(s) - Len(word) + 1) : SubSeq(s, i, i + Len(word) - 1) = word

\* s[:n]
prefix(s, n) == SubSeq(s, 1, IF Len(s) < n THEN Len(s) ELSE n)

\* x or default, for a text or None
or_else(x, default) == IF x = None \/ x = <<>> THEN default ELSE x

\* re.findall(r'\d+', s)[0]: the first maximal run of digits (s holds a digit)
first_number(s) ==
    LET lo == CHOOSE i \in 1..Len(s) :
                  s[i] \in Digits /\ \A j \in 1..(i - 1) : s[j] \notin Digits
        hi == CHOOSE i \in lo..Len(s) :
                  /\ \A j \in lo..i : s[j] \in Digits
                  /\ (i = Len(s) \/ s[i + 1] \notin Digits)
    IN  SubSeq(s, lo, hi)

has_digit(s) == \E i \in 1..Len(s) : s[i] \in Digits

\* str(n) for the numbers the program formats
str(n) == <<ToString(n)>>

(***************************************************************************)
(* Program constants shared by the two scripts.                            *)
(***************************************************************************)
FIELD_ORDER == <<"name", "email", "phone", "experience", "position", "location", "tech_stack">>

FIELD_PROMPTS ==
    [name |-> <<"full name">>, email |-> <<"email address">>, phone |-> <<"phone number">>,
     experience |-> <<"years of experience">>, position |-> <<"desired position">>,
     location |-> <<"current location">>,
     tech_stack |-> <<"tech stack (programming languages, frameworks, tools)">>]

SYSTEM_PROMPTS ==
    [greeting |-> <<"SYSTEM_PROMPTS['greeting']">>,
     collect_info |-> <<"SYSTEM_PROMPTS['collect_info']">>,
     generate_questions |-> <<"SYSTEM_PROMPTS['generate_questions']">>,
     evaluate_answer |-> <<"SYSTEM_PROMPTS['evaluate_answer']">>,
     farewell |-> <<"SYSTEM_PROMPTS['farewell']">>]

NumQuestions == 5
FeedbackChars == 200

\* the candidate_data dict of a fresh session
EmptyCandidate ==
    [name |-> None, email |-> None, phone |-> None, experience |-> None,
     position |-> None, location |-> None, tech_stack |-> None,
     technical_answers |-> <<>>]

\* the exit keywords of the chat handler of app_grok.py
exit_words ==
    { <<"b","y","e">>, <<"g","o","o","d","b","y","e">>, <<"e","x","i","t">>,
      <<"q","u","i","t">>, <<"e","n","d">>, <<"s","t","o","p">> }

\* exit_keywords of process_user_input of app.py
exit_keywords ==
    exit_words \cup { <<"n","o"," ","t","h","a","n","k","s">>,
                      <<"t","h","a","t","'","s"," ","a","l","l">> }

\* datetime.now(): the wall clock is not modelled, a timestamp is one atom
strftime == <<"%Y%m%d_%H%M%S">>
isoformat == <<"isoformat()">>

(***************************************************************************)
(* The world a handler runs in: w = [st, files, io].  A function of the   *)
(* program that returns a value and has effects is an operator that       *)
(* returns [w, ret].                                                       *)
(***************************************************************************)
Message(role, content) == [role |-> role, content |-> content]

\* a variant that assigns a one-message list instead of appending
append_overwrites(w, role, content) ==
    [w EXCEPT !.st.messages = <<Message(role, content)>>]

\* st.session_state.messages.append({"role": role, "content": content})
append(w, role, content) ==
    [w EXCEPT !.st.messages = Append(@, Message(role, content))]

Failed(outcome) == outcome # "ok"

\* a variant in which a failed request ends the conversation
requested_fatal(w, outcome) ==
    IF Failed(outcome)
    THEN [w EXCEPT !.io.calls = @ + 1, !.io.failed = @ + 1,
                   !.st.conversation_active = FALSE]
    ELSE [w EXCEPT !.io.calls = @ + 1]

\* one collaborator request made, with its outcome
requested(w, outcome) ==
    [w EXCEPT !.io.calls = @ + 1,
              !.io.failed = @ + (IF Failed(outcome) THEN 1 ELSE 0)]

\* which of the five instruction templates a request carries
Kind(system_prompt) ==
    IF \E k \in DOMAIN SYSTEM_PROMPTS : SYSTEM_PROMPTS[k] = system_prompt
    THEN CHOOSE k \in DOMAIN SYSTEM_PROMPTS : SYSTEM_PROMPTS[k] = system_prompt
    ELSE "generate_questions"

\* the request counted under its instruction template
logged(w, system_prompt) == [w EXCEPT !.io.kinds[Kind(system_prompt)] = @ + 1]

\* a variant that dumps the seven fields without the answers
written_fields_only(w, filename, data) ==
    [w EXCEPT !.io.saves = @ + 1,
              !.files = Append(@, [filename |-> filename,
                                   data |-> [data EXCEPT !.technical_answers = <<>>]])]

\* json.dump(data, f, indent=2) into a new file, done
written(w, filename, data) ==
    [w EXCEPT !.io.saves = @ + 1,
              !.files = Append(@, [filename |-> filename, data |-> data])]

\* makedirs, open or json.dump raised
write_failed(w) == [w EXCEPT !.io.saves = @ + 1, !.io.failed_saves = @ + 1]

(***************************************************************************)
(* app_grok.py                                                             *)
(***************************************************************************)
GroqOutcomes == {"ok", "no_key", "request_error", "unexpected"}

\* the session state after the initialisation block
GrokInitial ==
    [messages |-> <<>>,
     candidate_data |-> EmptyCandidate,
     current_field_index |-> 0,
     tech_questions_asked |-> 0,
     conversation_active |-> TRUE,
     technical_questions |-> <<>>,
     stage |-> "greeting",
     greeted |-> FALSE,
     last_user_message |-> None]

\* the text call_groq_api returns: the generated content, or the text of the failure
groq_text(prompt, system_prompt, outcome) ==
    CASE outcome = "no_key" ->
           <<"Add GROQ_API_KEY in environment or Streamlit secrets to enable AI responses.">>
      [] outcome = "request_error" -> <<"Error connecting to Groq API: ", "str(e)">>
      [] outcome = "unexpected" -> <<"An unexpected error occurred: ", "str(e)">>
      [] OTHER -> <<"content(">> \o system_prompt \o <<"|">> \o prompt \o <<")">>

\* a variant that posts the request a second time when it failed
call_groq_api_retries(w, prompt, system_prompt, outcome) ==
    LET once == logged(requested(w, outcome), system_prompt)
    IN  [w |-> IF Failed(outcome)
               THEN [logged(once, system_prompt) EXCEPT !.io.calls = @ + 1]
               ELSE once,
         ret |-> groq_text(prompt, system_prompt, outcome)]

call_groq_api(w, prompt, system_prompt, outcome) ==
    [w |-> logged(requested(w, outcome), system_prompt),
     ret |-> groq_text(prompt, system_prompt, outcome)]

generate_technical_questions(w, tech_stack, outcome) ==
    call_groq_api(w,
        <<"Tech stack: ">> \o tech_stack
            \o <<"\n\nGenerate 5 specific technical questions. Format: numbered 1-5 only.">>,
        SYSTEM_PROMPTS.generate_questions, outcome)

\* the file name save_candidate_data builds
replace_spaces(s) == [i \in 1..Len(s) |-> IF s[i] = " " THEN "_" ELSE s[i]]

save_filename(candidate) ==
    <<"candidate_data/">> \o replace_spaces(or_else(candidate.name, <<"unknown">>))
        \o <<"_">> \o strftime \o <<".json">>

\* save_candidate_data that writes the defaulted name into the record
save_candidate_data_defaults_name(w, write_ok) ==
    LET filename == save_filename(w.st.candidate_data)
        data_to_save == [w.st.candidate_data EXCEPT !.name = or_else(@, <<"unknown">>)]
    IN  IF write_ok
        THEN [w |-> written(w, filename, data_to_save),
              ret |-> <<"Data saved: ">> \o filename]
        ELSE [w |-> write_failed(w), ret |-> <<"Error saving data: ", "str(e)">>]

\* write_ok: whether makedirs, open and json.dump all succeed
save_candidate_data(w, write_ok) ==
    LET filename == save_filename(w.st.candidate_data)
        data_to_save == w.st.candidate_data
    IN  IF write_ok
        THEN [w |-> written(w, filename, data_to_save),
              ret |-> <<"Data saved: ">> \o filename]
        ELSE [w |-> write_failed(w), ret |-> <<"Error saving data: ", "str(e)">>]

\* field_at that counts from 1: the first field is skipped
field_at_off_by_one(idx) == FIELD_ORDER[IF idx + 2 > Len(FIELD_ORDER) THEN 1 ELSE idx + 2]

\* FIELD_ORDER[idx], idx counted from 0
field_at(idx) == FIELD_ORDER[idx + 1]

ask_next_info_field(w, is_first_field, outcome) ==
    IF w.st.current_field_index < Len(FIELD_ORDER)
    THEN LET next_field == field_at(w.st.current_field_index)
             prompt == IF is_first_field
                       THEN <<"Ask for their ">> \o FIELD_PROMPTS[next_field]
                                \o <<". One short question.">>
                       ELSE <<"Thank them briefly. Then ask for their ">>
                                \o FIELD_PROMPTS[next_field] \o <<". Keep short.">>
             r == call_groq_api(w, prompt, SYSTEM_PROMPTS.collect_info, outcome)
         IN  append(r.w, "assistant", r.ret)
    ELSE LET w1 == [w EXCEPT !.st.stage = "technical_questions"]
             tech_stack == or_else(w1.st.candidate_data.tech_stack, <<"unspecified tech stack">>)
             transition_msg == <<"Perfect! Now let's assess your **">> \o tech_stack
                                   \o <<"** skills. I'll ask 5 questions.">>
             w2 == append(w1, "assistant", transition_msg)
             r == generate_technical_questions(w2, tech_stack, outcome)
             w3 == [r.w EXCEPT !.st.technical_questions = r.ret]
             w4 == append(w3, "assistant", r.ret)
         IN  append(w4, "assistant", <<"\n**Please answer Question 1:**">>)

\* handle_greeting_stage that goes on only when the greeting was generated
handle_greeting_stage_needs_greeting(w, o1, o2) ==
    IF ~w.st.greeted
    THEN LET r == call_groq_api(w, <<"Greet the candidate for a hiring interview">>,
                                SYSTEM_PROMPTS.greeting, o1)
             w1 == append(r.w, "assistant", r.ret)
             w2 == [w1 EXCEPT !.st.greeted = TRUE, !.st.stage = "collect_info"]
         IN  IF Failed(o1) THEN w1 ELSE ask_next_info_field(w2, TRUE, o2)
    ELSE w

handle_greeting_stage(w, o1, o2) ==
    IF ~w.st.greeted
    THEN LET r == call_groq_api(w, <<"Greet the candidate for a hiring interview">>,
                                SYSTEM_PROMPTS.greeting, o1)
             w1 == append(r.w, "assistant", r.ret)
             w2 == [w1 EXCEPT !.st.greeted = TRUE, !.st.stage = "collect_info"]
         IN  ask_next_info_field(w2, TRUE, o2)
    ELSE w

\* process_user_input_info with the increment of the field index forgotten
process_user_input_info_keeps_index(w, user_input, outcome) ==
    LET idx == w.st.current_field_index
    IN  IF idx < Len(FIELD_ORDER)
        THEN LET current_field == field_at(idx)
                 w1 == [w EXCEPT !.st.candidate_data[current_field] = strip(user_input)]
             IN  ask_next_info_field(w1, FALSE, outcome)
        ELSE ask_next_info_field([w EXCEPT !.st.stage = "technical_questions"], FALSE, outcome)

process_user_input_info(w, user_input, outcome) ==
    LET idx == w.st.current_field_index
    IN  IF idx < Len(FIELD_ORDER)
        THEN LET current_field == field_at(idx)
                 w1 == [w EXCEPT !.st.candidate_data[current_field] = strip(user_input),
                                 !.st.current_field_index = @ + 1]
             IN  ask_next_info_field(w1, FALSE, outcome)
        ELSE ask_next_info_field([w EXCEPT !.st.stage = "technical_questions"], FALSE, outcome)

\* store_answer with the increment of the counter forgotten
store_answer_no_increment(w, user_input) ==
    LET qa == [question_number |-> w.st.tech_questions_asked + 1,
               answer |-> user_input,
               timestamp |-> isoformat]
    IN  [w EXCEPT !.st.candidate_data.technical_answers = Append(@, qa)]

\* store_answer that keeps the newest answer only
store_answer_replaces(w, user_input) ==
    LET qa == [question_number |-> w.st.tech_questions_asked + 1,
               answer |-> user_input,
               timestamp |-> isoformat]
    IN  [w EXCEPT !.st.candidate_data.technical_answers = <<qa>>,
                  !.st.tech_questions_asked = @ + 1]

\* store_answer that counts the question twice
store_answer_counts_twice(w, user_input) ==
    LET qa == [question_number |-> w.st.tech_questions_asked + 1,
               answer |-> user_input,
               timestamp |-> isoformat]
    IN  [w EXCEPT !.st.candidate_data.technical_answers = Append(@, qa),
                  !.st.tech_questions_asked = @ + 2]

\* the answer stored under the next question number, and the counter incremented
store_answer(w, user_input) ==
    LET qa == [question_number |-> w.st.tech_questions_asked + 1,
               answer |-> user_input,
               timestamp |-> isoformat]
    IN  [w EXCEPT !.st.candidate_data.technical_answers = Append(@, qa),
                  !.st.tech_questions_asked = @ + 1]

\* process_user_input_technical that puts the stage back to greeting when it finishes
process_user_input_technical_restarts(w, user_input, o1, o2, write_ok) ==
    LET w1 == store_answer(w, user_input)
        r == call_groq_api(w1, <<"feedback">>, SYSTEM_PROMPTS.evaluate_answer, o1)
        w2 == append(r.w, "assistant", r.ret)
    IN  IF w2.st.tech_questions_asked < NumQuestions
        THEN append(w2, "assistant", <<"next question">>)
        ELSE LET f == call_groq_api(w2, <<"Generate farewell">>, SYSTEM_PROMPTS.farewell, o2)
                 w3 == append(f.w, "assistant", f.ret)
                 s == save_candidate_data(w3, write_ok)
                 w4 == append(s.w, "assistant", s.ret)
             IN  [w4 EXCEPT !.st.conversation_active = FALSE, !.st.stage = "greeting"]

process_user_input_technical(w, user_input, o1, o2, write_ok) ==
    LET w1 == store_answer(w, user_input)
        feedback_prompt == <<"Brief encouraging feedback on the answer: ">>
                               \o prefix(user_input, FeedbackChars) \o <<"...">>
        r == call_groq_api(w1, feedback_prompt, SYSTEM_PROMPTS.evaluate_answer, o1)
        w2 == append(r.w, "assistant", r.ret)
    IN  IF w2.st.tech_questions_asked < NumQuestions
        THEN append(w2, "assistant",
                    <<"\n**Please answer Question ">> \o str(w2.st.tech_questions_asked + 1)
                        \o <<":**">>)
        ELSE LET f == call_groq_api(w2, <<"Generate farewell">>, SYSTEM_PROMPTS.farewell, o2)
                 w3 == append(f.w, "assistant", f.ret)
                 s == save_candidate_data(w3, write_ok)
                 w4 == append(s.w, "assistant", s.ret)
             IN  [w4 EXCEPT !.st.conversation_active = FALSE]

\* is_exit that compares the whole input with each keyword
is_exit_whole_input(raw) == \E word \in exit_words : lower(raw) = word

\* is_exit without .lower(): the match is case-sensitive
is_exit_case_sensitive(raw) == \E word \in exit_words : contains(raw, word)

\* any(word in raw.lower() for word in [...])
is_exit(raw) == \E word \in exit_words : contains(lower(raw), word)

\* is_duplicate that compares with the last message of the transcript
is_duplicate_last_message(w, raw) ==
    /\ Len(w.st.messages) > 0
    /\ raw = w.st.messages[Len(w.st.messages)].content

\* raw == st.session_state.get('last_user_message')
is_duplicate(w, raw) == raw = w.st.last_user_message

\* the body of `if submit_button:`; user_input is what the form submitted
chat_form(w, user_input, o1, o2, write_ok) ==
    LET raw == strip(user_input)
    IN  IF raw = <<>> THEN w                                \* st.warning
        ELSE IF is_duplicate(w, raw) THEN w                 \* st.info: duplicate
        ELSE LET w1 == append([w EXCEPT !.st.last_user_message = raw], "user", raw)
             IN  IF is_exit(raw)
                 THEN LET f == call_groq_api(w1, <<"Generate farewell">>,
                                             SYSTEM_PROMPTS.farewell, o1)
                          s == save_candidate_data(f.w, write_ok)
                          w2 == append(s.w, "assistant", f.ret)
                          w3 == append(w2, "assistant", s.ret)
                      IN  [w3 EXCEPT !.st.conversation_active = FALSE]
                 ELSE IF w1.st.stage = "collect_info"
                      THEN process_user_input_info(w1, raw, o1)
                 ELSE IF w1.st.stage = "technical_questions"
                      THEN process_user_input_technical(w1, raw, o1, o2, write_ok)
                 ELSE [append(w1, "assistant",
                              <<"I'm not sure what to do next. Restarting interview.">>)
                          EXCEPT !.st.conversation_active = FALSE]

\* a variant that leaves the remembered input of the duplicate guard in place
start_new_interview_keeps_last(w) ==
    [w EXCEPT !.st = [GrokInitial EXCEPT !.last_user_message = w.st.last_user_message]]

\* the "Start New Interview" button: the app keys reset
start_new_interview(w) == [w EXCEPT !.st = GrokInitial]

(***************************************************************************)
(* app.py                                                                  *)
(***************************************************************************)
LlmOutcomes == {"ok", "no_key", "error"}

\* the session state after the initialisation block
AppInitial ==
    [messages |-> <<>>,
     candidate_data |-> EmptyCandidate,
     stage |-> "greeting",
     tech_questions_asked |-> 0,
     conversation_active |-> TRUE]

llm_text(prompt, system_prompt, outcome) ==
    CASE outcome = "no_key" ->
           <<"Please configure your API key in the .streamlit/secrets.toml file or environment variables.">>
      [] outcome = "error" ->
           <<"Error calling LLM: ", "str(e)", "\n\nPlease check your API configuration.">>
      [] OTHER -> <<"content(">> \o system_prompt \o <<"|">> \o prompt \o <<")">>

call_llm(w, prompt, system_prompt, outcome) ==
    [w |-> logged(requested(w, outcome), system_prompt),
     ret |-> llm_text(prompt, system_prompt, outcome)]

NoField == "None"

\* the first required field that is still None, or None
get_missing_info(w) ==
    LET data == w.st.candidate_data
        missing == {i \in 1..Len(FIELD_ORDER) : data[FIELD_ORDER[i]] = None}
    IN  IF missing = {} THEN NoField
        ELSE FIELD_ORDER[CHOOSE i \in missing : \A j \in missing : i <= j]

extract_info_from_response(user_input, field) ==
    LET stripped == strip(user_input)
    IN  IF field = "experience" /\ has_digit(stripped)
        THEN first_number(stripped) \o <<" years">>
        ELSE stripped

app_generate_technical_questions(w, tech_stack, outcome) ==
    call_llm(w,
        <<"Based on this tech stack: ">> \o tech_stack
            \o <<"\n\nGenerate 5 technical interview questions ... numbered questions (1-5), nothing else.">>,
        <<"SYSTEM_PROMPTS['generate_questions'].format(num=5)">>, outcome)

\* st.success and st.error draw on the page; nothing is put in the transcript
app_save_candidate_data(w, write_ok) ==
    LET filename == <<"candidate_">> \o strftime \o <<".json">>
    IN  IF write_ok
        THEN written(w, filename, w.st.candidate_data)
        ELSE write_failed(w)

\* the answer stored under the next question number, and the counter incremented
app_store_answer(w, user_input) ==
    LET qa == [question_number |-> w.st.tech_questions_asked + 1,
               answer |-> user_input,
               timestamp |-> isoformat]
    IN  [w EXCEPT !.st.candidate_data.technical_answers = Append(@, qa),
                  !.st.tech_questions_asked = @ + 1]

process_user_input(w, user_input, o1, o2, write_ok) ==
    LET user_input_lower == strip(lower(user_input))
    IN  IF \E keyword \in exit_keywords : contains(user_input_lower, keyword)
        THEN LET w1 == [w EXCEPT !.st.stage = "farewell"]
                 f == call_llm(w1, <<"Generate farewell message">>, SYSTEM_PROMPTS.farewell, o1)
                 w2 == append(f.w, "assistant", f.ret)
                 w3 == [w2 EXCEPT !.st.conversation_active = FALSE]
             IN  app_save_candidate_data(w3, write_ok)
        ELSE IF w.st.stage = "greeting"
        THEN LET w1 == [w EXCEPT !.st.stage = "collect_info"]
                 missing == get_missing_info(w1)
                 prompt == <<"Ask for candidate's ", missing, ". Be friendly and professional.">>
                 r == call_llm(w1, prompt, SYSTEM_PROMPTS.collect_info, o1)
             IN  append(r.w, "assistant", r.ret)
        ELSE IF w.st.stage = "collect_info"
        THEN LET missing == get_missing_info(w)
             IN  IF missing # NoField
                 THEN LET info == extract_info_from_response(user_input, missing)
                          w1 == [w EXCEPT !.st.candidate_data[missing] = info]
                          next_missing == get_missing_info(w1)
                      IN  IF next_missing # NoField
                          THEN LET prompt == <<"The candidate just provided their ", missing, ": ">>
                                                 \o info \o <<". Now ask for their ", next_missing, ".">>
                                   r == call_llm(w1, prompt, SYSTEM_PROMPTS.collect_info, o1)
                               IN  append(r.w, "assistant", r.ret)
                          ELSE LET w2 == [w1 EXCEPT !.st.stage = "technical_questions"]
                                   tech_stack == w2.st.candidate_data.tech_stack
                                   transition_msg ==
                                       <<"Great! I have all your information. Now let's assess your technical skills in ">>
                                           \o tech_stack \o <<". I'll ask you 5 questions.">>
                                   w3 == append(w2, "assistant", transition_msg)
                                   r == app_generate_technical_questions(w3, tech_stack, o1)
                                   w4 == [r.w EXCEPT !.st =
                                             ("technical_questions" :> r.ret) @@ @]
                                   w5 == append(w4, "assistant", r.ret)
                               IN  append(w5, "assistant", <<"Please answer Question 1:">>)
                 ELSE w
        ELSE IF w.st.stage = "technical_questions"
        THEN LET w1 == app_store_answer(w, user_input)
                 feedback_prompt == <<"Provide brief encouraging feedback on this answer: ">>
                                        \o prefix(user_input, FeedbackChars)
                 r == call_llm(w1, feedback_prompt, SYSTEM_PROMPTS.evaluate_answer, o1)
                 w2 == append(r.w, "assistant", r.ret)
             IN  IF w2.st.tech_questions_asked < NumQuestions
                 THEN append(w2, "assistant",
                             <<"Please answer Question ">> \o str(w2.st.tech_questions_asked + 1)
                                 \o <<":">>)
                 ELSE LET w3 == [w2 EXCEPT !.st.stage = "farewell"]
                          f == call_llm(w3, <<"Generate farewell message">>,
                                        SYSTEM_PROMPTS.farewell, o2)
                          w4 == append(f.w, "assistant", f.ret)
                          w5 == [w4 EXCEPT !.st.conversation_active = FALSE]
                      IN  app_save_candidate_data(w5, write_ok)
        ELSE w

\* the first-render greeting of the chat container
initial_greeting(w, outcome) ==
    IF Len(w.st.messages) = 0
    THEN LET r == call_llm(w, <<"Greet the candidate">>, SYSTEM_PROMPTS.greeting, outcome)
         IN  append(r.w, "assistant", r.ret)
    ELSE w

\* the body of `if st.session_state.conversation_active:`
chat_input(w, user_input, o1, o2, write_ok) ==
    IF user_input # <<>>
    THEN process_user_input(append(w, "user", user_input), user_input, o1, o2, write_ok)
    ELSE w

\* the "Start New Conversation" button: every key deleted, the rerun initialises again
start_new_conversation(w) == [w EXCEPT !.st = AppInitial]

(***************************************************************************)
(* The user.  On script, the user answers what was asked; off script, the *)
(* user submits one of OffScript or submits the previous input again.     *)
(***************************************************************************)
Answer ==
    [name |-> <<"A","l"," ","B">>, email |-> <<"a","@","b">>, phone |-> <<"5","5","5">>,
     experience |-> <<"5"," ","y","r","s">>, position |-> <<"d","e","v">>,
     location |-> <<"R","o","m","e">>, tech_stack |-> <<"S","Q","L">>]

Hello == <<"h","i">>

TechAnswer(n) == <<"n","o",".">> \o str(n)

OffScript ==
    { <<"B","y","e">>,
      <<"B","a","c","k","e","n","d">>,
      <<" ","o","k"," ">>,
      <<" ">>,
      <<>>,
      <<"n","o"," ","t","h","a","n","k","s">>,
      <<"i","n"," ","2","0","1","5",","," ","3","y">> }

\* the number of candidate fields that are not None
FieldsSet(candidate) == Cardinality({i \in 1..Len(FIELD_ORDER) : candidate[FIELD_ORDER[i]] # None})

\* what the user answers to the last prompt of the transcript
Expected ==
    LET st == session_state
        k == FieldsSet(st.candidate_data)
    IN  IF st.stage = "greeting" THEN Hello
        ELSE IF st.stage = "collect_info" /\ k < Len(FIELD_ORDER)
             THEN Answer[FIELD_ORDER[k + 1]]
        ELSE TechAnswer(st.tech_questions_asked + 1)

World == [st |-> session_state, files |-> files, io |-> io]

\* the world of the run in which every request and every write succeeds
Twin == [st |-> twin, files |-> files, io |-> io]

\* failed requests, failed writes and off-script inputs so far
Deviations(w, offscript) == w.io.failed + w.io.failed_saves + offscript

\* what the outside world does to the (at most two) requests and the write of a handler
Env(o1, o2, write_ok) == [o1 |-> o1, o2 |-> o2, write_ok |-> write_ok]

Envs(outcomes, left) ==
    {Env("ok", "ok", TRUE)}
        \cup (IF left < 1 THEN {}
              ELSE {Env(o, "ok", TRUE) : o \in outcomes}
                     \cup {Env("ok", o, TRUE) : o \in outcomes}
                     \cup {Env("ok", "ok", FALSE)})
        \cup (IF left < 2 THEN {}
              ELSE {Env(o1, o2, b) : o1 \in outcomes, o2 \in outcomes, b \in BOOLEAN})

Left == MaxDeviations - Deviations(World, budget.offscript)

\* the step to world w, with what it uses of the bounds
Becomes(w, offscript, restart) ==
    /\ Deviations(w, budget.offscript + offscript) <= MaxDeviations
    /\ budget.restarts + restart <= MaxRestarts
    /\ session_state' = w.st
    /\ files' = w.files
    /\ io' = w.io
    /\ budget' = [offscript |-> budget.offscript + offscript,
                  restarts |-> budget.restarts + restart]
    /\ app' = app

\* the user has submitted user_input
Submitted(w, user_input) ==
    [w EXCEPT !.io.last_submitted = user_input, !.io.submissions = @ + 1]

\* what the user submits off script: one of OffScript, or the last submission again
Resubmit == IF io.last_submitted = None THEN {} ELSE {io.last_submitted}

Init ==
    /\ app \in {"app_grok", "app"}
    /\ session_state = IF app = "app_grok" THEN GrokInitial ELSE AppInitial
    /\ files = <<>>
    /\ io = [calls |-> 0, failed |-> 0, saves |-> 0, failed_saves |-> 0,
             last_submitted |-> None, submissions |-> 0,
             kinds |-> [k \in DOMAIN SYSTEM_PROMPTS |-> 0]]
    /\ budget = [offscript |-> 0, restarts |-> 0]
    /\ twin = session_state

\* app_grok.py: a run of the script in stage greeting
GrokGreeting ==
    /\ app = "app_grok"
    /\ session_state.stage = "greeting"
    /\ \E e \in Envs(GroqOutcomes, Left) :
          Becomes(handle_greeting_stage(World, e.o1, e.o2), 0, 0)
    /\ twin' = handle_greeting_stage(Twin, "ok", "ok").st

\* a variant that shows the form whether or not the conversation is active
GrokSubmit_ungated ==
    /\ app = "app_grok"
    /\ session_state.stage # "greeting"
    /\ \/ \E e \in Envs(GroqOutcomes, Left) :
             /\ Becomes(Submitted(chat_form(World, Expected, e.o1, e.o2, e.write_ok), Expected),
                        0, 0)
             /\ twin' = chat_form(Twin, Expected, "ok", "ok", TRUE).st
       \/ \E user_input \in OffScript \cup Resubmit, e \in Envs(GroqOutcomes, Left - 1) :
             /\ Becomes(Submitted(chat_form(World, user_input, e.o1, e.o2, e.write_ok), user_input),
                        1, 0)
             /\ twin' = chat_form(Twin, user_input, "ok", "ok", TRUE).st

\* app_grok.py: the form is submitted
GrokSubmit ==
    /\ app = "app_grok"
    /\ session_state.stage # "greeting"
    /\ session_state.conversation_active
    /\ \/ \E e \in Envs(GroqOutcomes, Left) :
             /\ Becomes(Submitted(chat_form(World, Expected, e.o1, e.o2, e.write_ok), Expected),
                        0, 0)
             /\ twin' = chat_form(Twin, Expected, "ok", "ok", TRUE).st
       \/ \E user_input \in OffScript \cup Resubmit, e \in Envs(GroqOutcomes, Left - 1) :
             /\ Becomes(Submitted(chat_form(World, user_input, e.o1, e.o2, e.write_ok), user_input),
                        1, 0)
             /\ twin' = chat_form(Twin, user_input, "ok", "ok", TRUE).st

\* app_grok.py: the Start New Interview button
GrokRestart ==
    /\ app = "app_grok"
    /\ ~session_state.conversation_active
    /\ Becomes(start_new_interview(World), 0, 1)
    /\ twin' = start_new_interview(Twin).st

\* app.py: a run of the script with an empty transcript
AppGreeting ==
    /\ app = "app"
    /\ Len(session_state.messages) = 0
    /\ \E e \in Envs(LlmOutcomes, Left) : Becomes(initial_greeting(World, e.o1), 0, 0)
    /\ twin' = initial_greeting(Twin, "ok").st

\* app.py: the chat input is submitted
AppSubmit ==
    /\ app = "app"
    /\ Len(session_state.messages) # 0
    /\ session_state.conversation_active
    /\ \/ \E e \in Envs(LlmOutcomes, Left) :
             /\ Becomes(Submitted(chat_input(World, Expected, e.o1, e.o2, e.write_ok), Expected),
                        0, 0)
             /\ twin' = chat_input(Twin, Expected, "ok", "ok", TRUE).st
       \/ \E user_input \in OffScript \cup Resubmit, e \in Envs(LlmOutcomes, Left - 1) :
             /\ Becomes(Submitted(chat_input(World, user_input, e.o1, e.o2, e.write_ok), user_input),
                        1, 0)
             /\ twin' = chat_input(Twin, user_input, "ok", "ok", TRUE).st

\* app.py: the Start New Conversation button
AppRestart ==
    /\ app = "app"
    /\ ~session_state.conversation_active
    /\ Becomes(start_new_conversation(World), 0, 1)
    /\ twin' = start_new_conversation(Twin).st

Next ==
    \/ GrokGreeting
    \/ GrokSubmit
    \/ GrokRestart
    \/ AppGreeting
    \/ AppSubmit
    \/ AppRestart

Spec == Init /\ [][Next]_vars

(***************************************************************************)
(* What the claims speak of.                                               *)
(***************************************************************************)
FieldValues(st) == [i \in 1..Len(FIELD_ORDER) |-> st.candidate_data[FIELD_ORDER[i]]]

Answers(st) == st.candidate_data.technical_answers

StageRank(stage) ==
    CASE stage = "greeting" -> 0
      [] stage = "collect_info" -> 1
      [] stage = "technical_questions" -> 2
      [] OTHER -> 3

\* the step is the explicit restart
IsRestart == budget'.restarts # budget.restarts

\* the step accepts a user input: the transcript grows by a user message first
Accepts(before, after) ==
    /\ Len(after.messages) > Len(before.messages)
    /\ after.messages[Len(before.messages) + 1].role = "user"

\* the input the step accepts
Accepted(before, after) == after.messages[Len(before.messages) + 1].content

\* the text contains one of the six exit keywords, whatever the case
HasExitWord(text) == \E word \in exit_words : contains(lower(text), word)

UserMessages(st) == SelectSeq(st.messages, LAMBDA m : m.role = "user")

\* C1: between restarts the stage never moves back along greeting, collect_info,
\* technical_questions, farewell, and from technical_questions on no candidate
\* field is written.
C1_StageMonotonic ==
    [][~IsRestart =>
          /\ StageRank(session_state'.stage) >= StageRank(session_state.stage)
          /\ (StageRank(session_state.stage) >= 2 =>
                 FieldValues(session_state') = FieldValues(session_state))]_vars

\* an answer was stored after the stage became technical_questions
C1_Witness ==
    /\ StageRank(session_state.stage) >= 2
    /\ Len(Answers(session_state)) >= 1

\* C2: the fields that are set are a prefix of the declared order, and a field
\* that is set keeps its value until the restart.
C2_OrderedOnce ==
    /\ [](\A i, j \in 1..Len(FIELD_ORDER) :
             (i < j /\ FieldValues(session_state)[j] # None)
                 => FieldValues(session_state)[i] # None)
    /\ [][~IsRestart =>
             \A i \in 1..Len(FIELD_ORDER) :
                 FieldValues(session_state)[i] # None
                     => FieldValues(session_state')[i] = FieldValues(session_state)[i]]_vars

\* three fields are set, four are still to come
C2_Witness == FieldsSet(session_state.candidate_data) = 3

\* C3: the counter equals the number of stored answers, and the stored answers
\* carry the numbers 1, 2, ..., n in that order.
C3_CounterMatchesAnswers ==
    /\ session_state.tech_questions_asked = Len(Answers(session_state))
    /\ \A i \in 1..Len(Answers(session_state)) :
          Answers(session_state)[i].question_number = i

\* three answers are stored
C3_Witness == Len(Answers(session_state)) = 3

\* the farewell texts the collaborator can return
FarewellTexts ==
    {groq_text(<<"Generate farewell">>, SYSTEM_PROMPTS.farewell, o) : o \in GroqOutcomes}
        \cup {llm_text(<<"Generate farewell message">>, SYSTEM_PROMPTS.farewell, o) :
                 o \in LlmOutcomes}

\* the messages the step appends after the first one
AppendedAfterInput(before, after) ==
    {after.messages[i] : i \in (Len(before.messages) + 2)..Len(after.messages)}

\* the step attempts exactly one write, of the record the session then holds
PersistsRecord ==
    /\ io'.saves = io.saves + 1
    /\ \/ /\ io'.failed_saves = io.failed_saves + 1
          /\ files' = files
       \/ /\ io'.failed_saves = io.failed_saves
          /\ Len(files') = Len(files) + 1
          /\ SubSeq(files', 1, Len(files)) = files
          /\ files'[Len(files')].data = session_state'.candidate_data

\* C4: an accepted input that contains an exit keyword, in any case, makes the
\* same turn append a farewell message, persist the record and deactivate the
\* conversation; the input is stored in no field and as no answer, and the
\* counter stays.
C4_ExitShortcut ==
    [][(Accepts(session_state, session_state')
          /\ HasExitWord(Accepted(session_state, session_state')))
        => /\ \E m \in AppendedAfterInput(session_state, session_state') :
                m.role = "assistant" /\ m.content \in FarewellTexts
           /\ PersistsRecord
           /\ ~session_state'.conversation_active
           /\ session_state'.candidate_data = session_state.candidate_data
           /\ session_state'.tech_questions_asked = session_state.tech_questions_asked]_vars

\* an input with an upper-case exit keyword ended the conversation
C4_Witness ==
    /\ ~session_state.conversation_active
    /\ Len(UserMessages(session_state)) > 0
    /\ LET last == UserMessages(session_state)[Len(UserMessages(session_state))].content
       IN  HasExitWord(last) /\ last # lower(last)

\* C5: in app_grok.py a submission equal to the last accepted input of the
\* session changes nothing: no message, no field, no answer, no counter, no
\* stage, no flag.
C5_DuplicateIgnored ==
    [][(/\ app = "app_grok"
        /\ io'.submissions = io.submissions + 1
        /\ Len(UserMessages(session_state)) > 0
        /\ strip(io'.last_submitted)
              = UserMessages(session_state)[Len(UserMessages(session_state))].content)
        => /\ session_state' = session_state
           /\ files' = files
           /\ io'.calls = io.calls
           /\ io'.saves = io.saves]_vars

\* the last accepted input was submitted again and the transcript did not grow
C5_Witness ==
    /\ app = "app_grok"
    /\ budget.restarts = 0
    /\ io.submissions > Len(UserMessages(session_state))
    /\ Len(UserMessages(session_state)) > 0
    /\ strip(io.last_submitted)
          = UserMessages(session_state)[Len(UserMessages(session_state))].content

\* the input makes the running script take its exit shortcut
TakesExit(text) ==
    IF app = "app_grok" THEN is_exit(text)
    ELSE \E keyword \in exit_keywords : contains(strip(lower(text)), keyword)

Distinct(seq) == \A i, j \in 1..Len(seq) : i # j => seq[i] # seq[j]

\* the farewell texts of a request that succeeded
GeneratedFarewells ==
    {groq_text(<<"Generate farewell">>, SYSTEM_PROMPTS.farewell, "ok"),
     llm_text(<<"Generate farewell message">>, SYSTEM_PROMPTS.farewell, "ok")}

\* the messages after the last user message
SinceLastInput(st) ==
    {st.messages[i] : i \in {j \in 1..Len(st.messages) :
                                \A k \in j..Len(st.messages) : st.messages[k].role # "user"}}

\* the farewells in the transcript: generated ones, and the text that stands for
\* one in the last turn of an ended conversation
FarewellCount(st) ==
    LET generated == {i \in 1..Len(st.messages) : st.messages[i].content \in GeneratedFarewells}
    IN  IF generated # {} THEN Cardinality(generated)
        ELSE IF ~st.conversation_active
                /\ \E m \in SinceLastInput(st) : m.content \in FarewellTexts
        THEN 1 ELSE 0

Numbered(answers) == \A i \in 1..Len(answers) : answers[i].question_number = i

\* the accepted inputs of the session, none an exit and no two the same
PlainInputs(st) ==
    LET inputs == [i \in 1..Len(UserMessages(st)) |-> UserMessages(st)[i].content]
    IN  (\A i \in 1..Len(inputs) : ~TakesExit(inputs[i])) /\ Distinct(inputs)

\* C6: in a session whose accepted inputs hold no exit keyword and no duplicate,
\* each turn in collect_info stores one field (the first the name), each turn in
\* technical_questions one answer, and the conversation is over exactly from the
\* 12th accepted input on, with one farewell and a record of 7 fields and the
\* answers 1 to 5.
C6_TwelveTurns ==
    /\ [](LET st == session_state
              n == Len(UserMessages(st))
              all == Len(FIELD_ORDER) + NumQuestions
          IN  PlainInputs(st)
              => /\ n <= all
                 /\ st.conversation_active = (n < all)
                 /\ FarewellCount(st) = (IF n < all THEN 0 ELSE 1)
                 /\ n = all => /\ FieldsSet(st.candidate_data) = Len(FIELD_ORDER)
                               /\ Len(Answers(st)) = NumQuestions
                               /\ Numbered(Answers(st))
                               /\ (Len(files) > 0 /\ io.failed_saves = 0)
                                     => files[Len(files)].data = st.candidate_data)
    /\ [][(Accepts(session_state, session_state') /\ PlainInputs(session_state'))
          => LET before == session_state
                 after == session_state'
                 k == FieldsSet(before.candidate_data)
             IN  /\ before.stage = "collect_info"
                       => /\ FieldsSet(after.candidate_data) = k + 1
                          /\ Answers(after) = <<>>
                          /\ k = 0 => after.candidate_data.name
                                         = strip(Accepted(before, after))
                 /\ before.stage = "technical_questions"
                       => /\ k = Len(FIELD_ORDER)
                          /\ Len(Answers(after)) = Len(Answers(before)) + 1]_vars

\* C7: the exit shortcut taken in collect_info after k fields persists a record
\* with exactly the first k fields set, the others unset and no answers, and
\* ends the conversation with a farewell.
C7_ExitDuringCollect ==
    [][(/\ Accepts(session_state, session_state')
        /\ HasExitWord(Accepted(session_state, session_state'))
        /\ session_state.stage = "collect_info")
        => LET k == FieldsSet(session_state.candidate_data)
           IN  /\ k < Len(FIELD_ORDER)
               /\ PersistsRecord
               /\ \A i \in 1..Len(FIELD_ORDER) :
                     /\ i <= k => /\ FieldValues(session_state')[i] # None
                                  /\ FieldValues(session_state')[i] = FieldValues(session_state)[i]
                     /\ i > k => FieldValues(session_state')[i] = None
               /\ Answers(session_state') = <<>>
               /\ \E m \in AppendedAfterInput(session_state, session_state') :
                     m.role = "assistant" /\ m.content \in FarewellTexts
               /\ ~session_state'.conversation_active]_vars

\* a record with name and email set and nothing else was written on exit
C7_Witness ==
    /\ ~session_state.conversation_active
    /\ Len(files) > 0
    /\ LET data == files[Len(files)].data
       IN  /\ data.name # None /\ data.email # None
           /\ data.phone = None /\ data.experience = None /\ data.position = None
           /\ data.location = None /\ data.tech_stack = None
           /\ data.technical_answers = <<>>

\* C8: an accepted non-exit input in technical_questions appends one answer and
\* one feedback message; below 5 answers the next question number is prompted
\* and the stage stays, on the 5th the stage becomes farewell, a farewell is
\* appended, the record persisted and the conversation deactivated.
C8_TechnicalTurn ==
    [][(/\ Accepts(session_state, session_state')
        /\ ~TakesExit(Accepted(session_state, session_state'))
        /\ session_state.stage = "technical_questions")
        => LET before == session_state
               after == session_state'
               last == after.messages[Len(after.messages)]
           IN  /\ Len(Answers(after)) = Len(Answers(before)) + 1
               /\ SubSeq(Answers(after), 1, Len(Answers(before))) = Answers(before)
               /\ after.messages[Len(before.messages) + 2].role = "assistant"
               /\ IF Len(Answers(after)) < NumQuestions
                  THEN /\ after.stage = "technical_questions"
                       /\ after.conversation_active
                       /\ Len(after.messages) = Len(before.messages) + 3
                       /\ last.content \in
                             { <<"\n**Please answer Question ">> \o str(Len(Answers(after)) + 1)
                                   \o <<":**">>,
                               <<"Please answer Question ">> \o str(Len(Answers(after)) + 1)
                                   \o <<":">> }
                  ELSE /\ after.stage = "farewell"
                       /\ \E m \in AppendedAfterInput(before, after) :
                             m.role = "assistant" /\ m.content \in FarewellTexts
                       /\ PersistsRecord
                       /\ ~after.conversation_active]_vars

\* the texts with which call_groq_api reports a failure
GroqErrorTexts == {groq_text(<<>>, <<>>, o) : o \in GroqOutcomes \ {"ok"}}

\* what decides the next step of app_grok.py
Control(st) ==
    [stage |-> st.stage, candidate_data |-> st.candidate_data,
     tech_questions_asked |-> st.tech_questions_asked,
     conversation_active |-> st.conversation_active,
     current_field_index |-> st.current_field_index,
     greeted |-> st.greeted, last_user_message |-> st.last_user_message]

\* the session state the step of app_grok.py would give had every request succeeded
HadAllSucceeded ==
    IF io'.submissions = io.submissions + 1
    THEN chat_form(World, io'.last_submitted, "ok", "ok",
                   io'.failed_saves = io.failed_saves).st
    ELSE handle_greeting_stage(World, "ok", "ok").st

\* C9: in app_grok.py a failed request puts its error text in the transcript where
\* the content would be, and the controller goes on as after a success; a failed
\* greeting leaves the error text, the stage collect_info and the prompt for the
\* name requested.
C9_FailureBecomesText ==
    [][(app = "app_grok" /\ io'.failed > io.failed)
        => LET after == session_state'
               ok == HadAllSucceeded
           IN  /\ Control(after) = Control(ok)
               /\ Len(after.messages) = Len(ok.messages)
               /\ \A i \in 1..Len(after.messages) :
                     \/ after.messages[i] = ok.messages[i]
                     \/ /\ after.messages[i].role = "assistant"
                        /\ after.messages[i].content \in GroqErrorTexts
               /\ \E i \in (Len(session_state.messages) + 1)..Len(after.messages) :
                     after.messages[i].content \in GroqErrorTexts
               /\ session_state.stage = "greeting"
                     => /\ after.stage = "collect_info"
                        /\ Len(after.messages) = 2
                        /\ after.messages[2].role = "assistant"
                        /\ io'.calls = io.calls + 2]_vars

\* the greeting request failed: its error text opens the transcript, the stage is
\* collect_info and the prompt for the name follows
C9_Witness ==
    /\ app = "app_grok"
    /\ session_state.stage = "collect_info"
    /\ Len(session_state.messages) = 2
    /\ session_state.messages[1].content \in GroqErrorTexts
    /\ session_state.messages[2].content
          = groq_text(<<"Ask for their ">> \o FIELD_PROMPTS.name \o <<". One short question.">>,
                      SYSTEM_PROMPTS.collect_info, "ok")

\* C10: a failed write at the terminal step is caught: an error message is
\* appended to the transcript, the conversation is marked complete and the
\* candidate record is what it would be had the write succeeded.
C10_WriteFailureSurfaced ==
    [][(io'.failed_saves = io.failed_saves + 1)
        => /\ \E m \in AppendedAfterInput(session_state, session_state') :
                 m.role = "assistant" /\ m.content = <<"Error saving data: ", "str(e)">>
           /\ ~session_state'.conversation_active
           /\ session_state'.candidate_data =
                 (IF app = "app_grok"
                  THEN chat_form(World, io'.last_submitted, "ok", "ok", TRUE)
                  ELSE chat_input(World, io'.last_submitted, "ok", "ok", TRUE)).st.candidate_data]_vars

\* the texts of a successful request for the prompt of the first field
FirstFieldPrompts ==
    {groq_text(<<"Ask for their ">> \o FIELD_PROMPTS.name \o <<". One short question.">>,
               SYSTEM_PROMPTS.collect_info, "ok"),
     llm_text(<<"Ask for candidate's ", "name", ". Be friendly and professional.">>,
              SYSTEM_PROMPTS.collect_info, "ok")}

\* C11: the first render of a session, before any input, appends one greeting,
\* moves the stage from greeting to collect_info and requests the prompt for the
\* first field; until the restart no later step requests a greeting or appends
\* the first-field prompt again.
C11_GreetingOnce ==
    [][~IsRestart
        => LET before == session_state
               after == session_state'
           IN  /\ before.messages = <<>>
                     => /\ io'.submissions = io.submissions
                        /\ before.stage = "greeting" /\ after.stage = "collect_info"
                        /\ Len(after.messages) = 2
                        /\ after.messages[1].role = "assistant"
                        /\ after.messages[2].role = "assistant"
                        /\ io'.kinds.greeting = io.kinds.greeting + 1
                        /\ io'.kinds.collect_info = io.kinds.collect_info + 1
                        /\ io'.calls = io.calls + 2
               /\ before.messages # <<>>
                     => /\ io'.kinds.greeting = io.kinds.greeting
                        /\ before.stage # "greeting"
                        /\ \A m \in AppendedAfterInput(before, after) \cup
                                     (IF Accepts(before, after) THEN {}
                                      ELSE {after.messages[i] :
                                               i \in (Len(before.messages) + 1)..Len(after.messages)}) :
                              m.content \notin FirstFieldPrompts]_vars

\* the world the step would give had every request and the write succeeded
AllSucceeded ==
    IF io'.submissions = io.submissions + 1
    THEN IF app = "app_grok"
         THEN chat_form(World, io'.last_submitted, "ok", "ok", TRUE)
         ELSE chat_input(World, io'.last_submitted, "ok", "ok", TRUE)
    ELSE IF app = "app_grok"
         THEN handle_greeting_stage(World, "ok", "ok")
         ELSE initial_greeting(World, "ok")

\* the requests a step makes, by instruction template
Requests(greeting, collect_info, generate_questions, evaluate_answer, farewell) ==
    [greeting |-> greeting, collect_info |-> collect_info,
     generate_questions |-> generate_questions, evaluate_answer |-> evaluate_answer,
     farewell |-> farewell]

RequestsMade == [k \in DOMAIN SYSTEM_PROMPTS |-> io'.kinds[k] - io.kinds[k]]

\* C12: no request is retried: the requests of a step are fixed by the stage and
\* the progress (one for a field prompt, one for the questions, one for the
\* feedback, one more for the farewell of the terminal turn), their number is
\* the number of requests counted, and it is what it would be had all succeeded.
C12_NoRetry ==
    [][~IsRestart
        => LET before == session_state
               after == session_state'
           IN  /\ io'.calls - io.calls
                     = RequestsMade.greeting + RequestsMade.collect_info
                         + RequestsMade.generate_questions + RequestsMade.evaluate_answer
                         + RequestsMade.farewell
               /\ io'.failed - io.failed <= io'.calls - io.calls
               /\ io'.calls = AllSucceeded.io.calls
               /\ io'.kinds = AllSucceeded.io.kinds
               /\ RequestsMade =
                     (IF io'.submissions = io.submissions
                      THEN Requests(1, IF app = "app_grok" THEN 1 ELSE 0, 0, 0, 0)
                      ELSE IF ~Accepts(before, after) THEN Requests(0, 0, 0, 0, 0)
                      ELSE IF TakesExit(Accepted(before, after)) THEN Requests(0, 0, 0, 0, 1)
                      ELSE IF before.stage = "greeting" THEN Requests(0, 1, 0, 0, 0)
                      ELSE IF before.stage = "collect_info"
                      THEN IF after.stage = "technical_questions"
                           THEN Requests(0, 0, 1, 0, 0)
                           ELSE Requests(0, 1, 0, 0, 0)
                      ELSE Requests(0, 0, 0, 1,
                                    IF Len(Answers(after)) = NumQuestions THEN 1 ELSE 0))]_vars

\* an interview went through all its turns with one request failed: 15 requests
C12_Witness ==
    /\ budget.restarts = 0
    /\ io.failed = 1
    /\ Len(Answers(session_state)) = NumQuestions
    /\ ~session_state.conversation_active
    /\ io.calls = 15

\* C13: the transcript only grows: every step but the restart keeps the messages
\* it found as a prefix of the messages it leaves, and only the restart leaves a
\* transcript empty.
C13_AppendOnly ==
    [][LET before == session_state.messages
           after == session_state'.messages
       IN  /\ ~IsRestart
                 => /\ Len(after) >= Len(before)
                    /\ SubSeq(after, 1, Len(before)) = before
           /\ (after = <<>> /\ before # <<>>) => IsRestart
           /\ IsRestart => after = <<>>]_vars

\* the session after a restart has a transcript of its own, with an input in it
C13_Witness ==
    /\ budget.restarts = 1
    /\ Len(UserMessages(session_state)) >= 1
    /\ Len(session_state.messages) >= 4

\* the session state of the running script after construction
Initial == IF app = "app_grok" THEN GrokInitial ELSE AppInitial

\* C14: the restart, and no other step, puts the session state back to its
\* initial value: seven fields unset, no answers, empty transcript, stage
\* greeting, counter 0, conversation active, and in app_grok.py no greeting given
\* and no input remembered; the first input of a session is then accepted, be it
\* the last input of the session before.
C14_RestartResets ==
    [][LET before == session_state
           after == session_state'
       IN  /\ IsRestart
                 => /\ after = Initial
                    /\ after.candidate_data = EmptyCandidate
                    /\ FieldsSet(after.candidate_data) = 0
                    /\ Answers(after) = <<>>
                    /\ after.messages = <<>>
                    /\ after.stage = "greeting"
                    /\ after.tech_questions_asked = 0
                    /\ after.conversation_active
                    /\ app = "app_grok"
                          => /\ ~after.greeted
                             /\ after.last_user_message = None
                             /\ after.current_field_index = 0
           /\ (after = Initial /\ before # Initial) => IsRestart
           /\ (/\ ~IsRestart
               /\ io'.submissions = io.submissions + 1
               /\ UserMessages(before) = <<>>
               /\ strip(io'.last_submitted) # <<>>)
                 => /\ Accepts(before, after)
                    /\ Accepted(before, after) \in {io'.last_submitted, strip(io'.last_submitted)}]_vars

\* app_grok.py after a restart: the last answer of the interview before, given
\* again as the first input, is stored as the name
C14_Witness ==
    /\ app = "app_grok"
    /\ budget.restarts = 1
    /\ Len(files) = 1
    /\ Len(files[1].data.technical_answers) = NumQuestions
    /\ session_state.candidate_data.name = files[1].data.technical_answers[NumQuestions].answer

\* C15: a session writes its record at most once before the restart: a write is
\* attempted in the turn that ends the conversation and in no other step, that
\* turn attempts exactly one, and what is written is the record the session
\* holds at that moment.
C15_OneRecord ==
    [][LET before == session_state
           after == session_state'
       IN  /\ (io'.saves # io.saves \/ files' # files)
                 => /\ before.conversation_active /\ ~after.conversation_active
                    /\ ~IsRestart
                    /\ PersistsRecord
           /\ (before.conversation_active /\ ~after.conversation_active) => PersistsRecord
           /\ ~before.conversation_active => (io'.saves = io.saves /\ files' = files)]_vars

\* a finished interview left one file, with the seven fields and the five answers
C15_Witness ==
    /\ ~session_state.conversation_active
    /\ Len(files) = 1
    /\ files[1].data = session_state.candidate_data
    /\ FieldsSet(files[1].data) = Len(FIELD_ORDER)
    /\ Len(files[1].data.technical_answers) = NumQuestions

\* C16: an answer is appended only by a step that starts in stage
\* technical_questions, hence with the seven fields set, one answer per step;
\* the answers a step finds stay as they are, in place, until the restart.
C16_AnswersOnlyInTechnical ==
    [][~IsRestart
        => LET before == session_state
               after == session_state'
           IN  /\ Len(Answers(after)) >= Len(Answers(before))
               /\ SubSeq(Answers(after), 1, Len(Answers(before))) = Answers(before)
               /\ Answers(after) # Answers(before)
                     => /\ before.stage = "technical_questions"
                        /\ FieldsSet(before.candidate_data) = Len(FIELD_ORDER)
                        /\ \A i \in 1..Len(FIELD_ORDER) : FieldValues(before)[i] # None
                        /\ Len(Answers(after)) = Len(Answers(before)) + 1
                        /\ Accepts(before, after)]_vars

\* two answers are stored, the first as it was stored
C16_Witness ==
    /\ Len(Answers(session_state)) = 2
    /\ Answers(session_state)[1].answer = TechAnswer(1)
    /\ session_state.stage = "technical_questions"

\* C17: the counter of answered questions is between 0 and 5, and no more than
\* 5 answers are stored.
C17_CounterBounded ==
    /\ session_state.tech_questions_asked \in 0..NumQuestions
    /\ Len(Answers(session_state)) <= NumQuestions

\* the fifth answer is stored
C17_Witness ==
    /\ session_state.tech_questions_asked = NumQuestions
    /\ Len(Answers(session_state)) = NumQuestions

\* C18: an accepted input stored as a field in collect_info is stored trimmed
\* and verbatim; only experience, when the input holds a digit, is stored as the
\* first maximal run of digits followed by ' years'.
C18_StoredValue ==
    [][(/\ Accepts(session_state, session_state')
        /\ ~TakesExit(Accepted(session_state, session_state'))
        /\ session_state.stage = "collect_info"
        /\ \E i \in 1..Len(FIELD_ORDER) : FieldValues(session_state)[i] = None)
        => LET i == CHOOSE i \in 1..Len(FIELD_ORDER) :
                        /\ FieldValues(session_state)[i] = None
                        /\ \A j \in 1..(i - 1) : FieldValues(session_state)[j] # None
               trimmed == strip(Accepted(session_state, session_state'))
           IN  FieldValues(session_state')[i] =
                  (IF FIELD_ORDER[i] = "experience" /\ has_digit(trimmed)
                   THEN first_number(trimmed) \o <<" years">>
                   ELSE trimmed)]_vars

\* what the claims call the control state of a session
ControlState(st) ==
    [stage |-> st.stage, candidate_data |-> st.candidate_data,
     tech_questions_asked |-> st.tech_questions_asked,
     conversation_active |-> st.conversation_active]

\* C19: the control state of a session is the one of the run that is given the
\* same renders, inputs and restarts and in which every request succeeds, and
\* the two transcripts differ in the text of assistant messages only.
C19_OutcomeIndependent ==
    /\ ControlState(session_state) = ControlState(twin)
    /\ Len(session_state.messages) = Len(twin.messages)
    /\ \A i \in 1..Len(twin.messages) :
          /\ session_state.messages[i].role = twin.messages[i].role
          /\ twin.messages[i].role = "user" => session_state.messages[i] = twin.messages[i]

\* a request failed in a session that went on to store the phone number
C19_Witness ==
    /\ budget.restarts = 0
    /\ io.failed = 1
    /\ session_state.conversation_active
    /\ FieldsSet(session_state.candidate_data) = 3
    /\ \E i \in 1..Len(session_state.messages) :
          session_state.messages[i].content
              \in GroqErrorTexts \cup {llm_text(<<>>, <<>>, o) : o \in LlmOutcomes \ {"ok"}}

\* C20: while the conversation is inactive nothing but the restart happens: no
\* input is taken, record, answers, counter, stage and transcript stay, and no
\* request and no write is made.
C20_InactiveFrozen ==
    [][(~session_state.conversation_active /\ ~IsRestart)
        => /\ io'.submissions = io.submissions
           /\ session_state'.candidate_data = session_state.candidate_data
           /\ Answers(session_state') = Answers(session_state)
           /\ session_state'.tech_questions_asked = session_state.tech_questions_asked
           /\ session_state'.stage = session_state.stage
           /\ session_state'.messages = session_state.messages
           /\ io'.calls = io.calls
           /\ io'.saves = io.saves
           /\ files' = files]_vars

\* a second conversation has ended too, after the restart that followed the first
C20_Witness ==
    /\ ~session_state.conversation_active
    /\ budget.restarts = 1
    /\ io.saves = 2

\* the text of the fallback branch of the stage routing
FallbackText == <<"I'm not sure what to do next. Restarting interview.">>

\* C21: in app_grok.py current_field_index is the number of fields set and lies
\* in 0..7; an active conversation that takes input is in collect_info with an
\* index below 7 or in technical_questions with index 7, so the defensive branch
\* and the fallback branch are not reached, and a conversation is inactive only
\* after a write was attempted for it.
C21_IndexAndRouting ==
    app = "app_grok"
        => LET st == session_state
               idx == st.current_field_index
           IN  /\ idx = FieldsSet(st.candidate_data)
               /\ idx \in 0..Len(FIELD_ORDER)
               /\ st.stage \in {"greeting", "collect_info", "technical_questions"}
               /\ st.stage = "greeting" => (st.conversation_active /\ st.messages = <<>>)
               /\ (st.conversation_active /\ st.stage # "greeting")
                     => \/ st.stage = "collect_info" /\ idx < Len(FIELD_ORDER)
                        \/ st.stage = "technical_questions" /\ idx = Len(FIELD_ORDER)
               /\ \A i \in 1..Len(st.messages) : st.messages[i].content # FallbackText
               /\ io.saves = budget.restarts + (IF st.conversation_active THEN 0 ELSE 1)

\* app_grok.py takes answers: the index is 7 and the stage technical_questions
C21_Witness ==
    /\ app = "app_grok"
    /\ session_state.conversation_active
    /\ session_state.stage = "technical_questions"
    /\ session_state.current_field_index = Len(FIELD_ORDER)
    /\ Len(Answers(session_state)) = 2

\* the submission before this one, if any, was not empty, and this one is neither
\* empty nor, after trimming, the same
KeepsParticipating(user_input) ==
    /\ strip(user_input) # <<>>
    /\ \/ io.last_submitted = None
       \/ /\ strip(io.last_submitted) # <<>>
          /\ strip(user_input) # strip(io.last_submitted)

\* C22: a submission of a participating user is accepted, a session holds at
\* most 12 accepted inputs, it is over once it holds 12, and it is over once it
\* holds an input with an exit keyword.
C22_EndsWithinTwelve ==
    /\ [](LET st == session_state
              n == Len(UserMessages(st))
          IN  /\ n <= Len(FIELD_ORDER) + NumQuestions
              /\ n = Len(FIELD_ORDER) + NumQuestions => ~st.conversation_active
              /\ (\E i \in 1..n : HasExitWord(UserMessages(st)[i].content))
                    => ~st.conversation_active)
    /\ [][(io'.submissions = io.submissions + 1 /\ KeepsParticipating(io'.last_submitted))
             => Accepts(session_state, session_state')]_vars

\* C23: no stored field value and no stored answer holds one of the six exit
\* keywords, whatever the case; an accepted input that holds one is the last
\* input of its session, which is over.
C23_NoExitWordStored ==
    LET st == session_state
        inputs == UserMessages(st)
    IN  /\ \A i \in 1..Len(FIELD_ORDER) :
              FieldValues(st)[i] # None => ~HasExitWord(FieldValues(st)[i])
        /\ \A i \in 1..Len(Answers(st)) : ~HasExitWord(Answers(st)[i].answer)
        /\ \A i \in 1..Len(inputs) :
              HasExitWord(inputs[i].content)
                  => /\ i = Len(inputs)
                     /\ ~st.conversation_active

\* 'Backend' was given where the position was asked: the interview is over and
\* the position is not set
C23_Witness ==
    LET inputs == UserMessages(session_state)
    IN  /\ ~session_state.conversation_active
        /\ Len(inputs) > 0
        /\ inputs[Len(inputs)].content = <<"B","a","c","k","e","n","d">>
        /\ session_state.candidate_data.experience # None
        /\ session_state.candidate_data.position = None

\* C24: in app_grok.py a submission that is empty or all whitespace changes
\* nothing: no message is appended, the input remembered by the duplicate guard
\* stays, fields, answers, counter, stage and active flag stay, and no request
\* and no write is made.
C24_EmptyRejected ==
    [][(/\ app = "app_grok"
        /\ io'.submissions = io.submissions + 1
        /\ \A i \in 1..Len(io'.last_submitted) : io'.last_submitted[i] \in Whitespace)
        => /\ session_state'.messages = session_state.messages
           /\ session_state'.last_user_message = session_state.last_user_message
           /\ session_state'.candidate_data = session_state.candidate_data
           /\ session_state'.tech_questions_asked = session_state.tech_questions_asked
           /\ session_state'.current_field_index = session_state.current_field_index
           /\ session_state'.stage = session_state.stage
           /\ session_state'.conversation_active = session_state.conversation_active
           /\ session_state' = session_state
           /\ files' = files
           /\ io'.calls = io.calls
           /\ io'.saves = io.saves]_vars

\* app_grok.py was given a blank after two fields: the guard still remembers the
\* email and the prompt for the phone number is still the last message
C24_Witness ==
    /\ app = "app_grok"
    /\ io.last_submitted = <<" ">>
    /\ session_state.last_user_message = Answer.email
    /\ FieldsSet(session_state.candidate_data) = 2
    /\ session_state.messages[Len(session_state.messages)].role = "assistant"
====
